---- MODULE Spec2Model ----
(***************************************************************************)
(* A model of schnetkit/ase/converter.py: the Converter object that caches *)
(* the neighbor list of the last configuration it recomputed for, and the  *)
(* FakeEnvironmentProvider that replays the cached list to the SchNetPack   *)
(* AtomsConverter.                                                          *)
(*                                                                         *)
(* Lengths are integers (one unit = one grid step), so squared distances   *)
(* and skin ** 2 are compared exactly, as the code compares floats.        *)
(* Python's None is the empty sequence and a present value x is <<x>>.     *)
(***************************************************************************)
EXTENDS Integers, Sequences, FiniteSets, TLC

\* ------------------------------------------------------------------------
\* Bounds of the explored inputs
\* ------------------------------------------------------------------------
MaxMove == 1       \* an atom moves up to MaxMove along x from its site
MaxSkin == 1       \* Converter(skin = 0..MaxSkin)
MaxCutoff == 1     \* Converter(cutoff = 1..MaxCutoff)
MaxClock == 1      \* time.monotonic() reads 0..MaxClock

None == << >>
Some(x) == << x >>
IsNone(o) == o = << >>
Val(o) == o[1]

Axes == 1 .. 3

\* Atom 1 sits at the origin and atom 2 at x = Site2; the cell edge is one
\* step longer, so that across a periodic boundary the two sites are adjacent.
Site2 == 2 * MaxMove + 1
CellLen == Site2 + 1

\* The positions atom i can take: up to MaxMove towards the other atom and,
\* for atom 1, one step off the axis, so that a displacement can have two
\* non-zero components.
PositionSet(i) ==
    IF i = 1
    THEN {<<x, 0, 0>> : x \in 0 .. MaxMove} \cup {<<0, 1, 0>>}
    ELSE {<<Site2 - x, 0, 0>> : x \in 0 .. MaxMove}

PositionArrays(n) == {p \in [1 .. n -> UNION {PositionSet(i) : i \in 1 .. n}] :
                        \A i \in 1 .. n : p[i] \in PositionSet(i)}

Cubic == <<<<CellLen, 0, 0>>, <<0, CellLen, 0>>, <<0, 0, CellLen>>>>
Sheared == <<<<CellLen, 0, 0>>, <<0, CellLen, 0>>, <<0, 1, CellLen>>>>
Open == <<FALSE, FALSE, FALSE>>
PeriodicX == <<TRUE, FALSE, FALSE>>

\* (cell, pbc) of the configurations a caller passes
Lattices == {<<Cubic, Open>>, <<Sheared, Open>>, <<Cubic, PeriodicX>>}

\* ase.Atoms, as far as the converter reads it: positions, cell, pbc; the
\* configurations of the given atom counts on the given lattices
Configurations(counts, lattices) ==
    UNION {
        {[positions |-> p, cell |-> l[1], pbc |-> l[2]] :
            p \in PositionArrays(n), l \in lattices} : n \in counts}

\* every configuration of the model
AllAtoms == Configurations({1, 2, 3}, Lattices)

\* the configurations a caller passes: a pair of atoms on any lattice
AtomsSet == Configurations({2}, Lattices)

\* where atom i >= 2 stays while atoms are added and removed: atom 2 as
\* close to atom 1 as it gets, atom 3 on the far site
AnchorSite(i) == IF i = 2 THEN <<Site2 - MaxMove, 0, 0>> ELSE <<Site2, 0, 0>>

\* the configurations a caller passes when it adds and removes atoms: one to
\* three atoms, of which atom 1 moves, in the cubic cell, open or periodic
CountsSet ==
    {a \in Configurations({1, 2, 3}, {<<Cubic, Open>>, <<Cubic, PeriodicX>>}) :
        \A i \in 2 .. Len(a.positions) : a.positions[i] = AnchorSite(i)}

get_positions(a) == a.positions
get_cell(a) == a.cell
get_pbc(a) == a.pbc
NumAtoms(a) == Len(a.positions)

\* cutoff + skin values a Converter can hold
CutoffRange == 1 .. (MaxCutoff + MaxSkin)

\* kwargs of __call__: a set of <<keyword, value>> pairs
KwargsSet == {{}, {<<"nl_construction_time", FALSE>>}, {<<"nl_construction_time", TRUE>>}}

\* ------------------------------------------------------------------------
\* The environment provider (schnetpack.environment.AseEnvironmentProvider)
\* ------------------------------------------------------------------------
\* Periodic images that can lie within the largest cutoff
MaxImage == ((Site2 + MaxCutoff + MaxSkin) \div CellLen) + 1
ImageWidth == 2 * MaxImage + 1

\* The k-th cell offset in lexicographic order, k = 0 .. ImageWidth^3 - 1
OffsetAt(k) ==
    <<(k \div (ImageWidth * ImageWidth)) - MaxImage,
      ((k \div ImageWidth) % ImageWidth) - MaxImage,
      (k % ImageWidth) - MaxImage>>

AllowedOffset(S, pbc) == \A k \in Axes : pbc[k] \/ S[k] = 0

\* Offsets along the periodic directions, in order
OffsetSeq(pbc) ==
    SelectSeq([k \in 1 .. (ImageWidth * ImageWidth * ImageWidth) |-> OffsetAt(k - 1)],
              LAMBDA S : AllowedOffset(S, pbc))

\* S . cell: the translation of the image S
Shift(S, cell) ==
    [c \in Axes |-> S[1] * cell[1][c] + S[2] * cell[2][c] + S[3] * cell[3][c]]

Sq(x) == x * x

\* squared distance from atom i to the image S of atom j
Dist2(a, i, j, S) ==
    LET d == [c \in Axes |->
                a.positions[j][c] + Shift(S, a.cell)[c] - a.positions[i][c]]
    IN  Sq(d[1]) + Sq(d[2]) + Sq(d[3])

\* the <<j, S>> within rc of atom i, self-interaction excluded
NeighborsOf(a, i, rc) ==
    LET offs == OffsetSeq(a.pbc)
        m == Len(offs)
        n == NumAtoms(a)
        cand == [k \in 1 .. (n * m) |-> <<((k - 1) \div m) + 1, offs[((k - 1) % m) + 1]>>]
    IN  SelectSeq(cand,
                  LAMBDA js : /\ ~(js[1] = i /\ js[2] = <<0, 0, 0>>)
                              /\ Dist2(a, i, js[1], js[2]) <= Sq(rc))

\* AseEnvironmentProvider(cutoff = rc).get_environment(a): <<idx, offset>>
AseGetEnvironment(a, rc) ==
    LET nb == [i \in 1 .. NumAtoms(a) |-> NeighborsOf(a, i, rc)]
    IN  <<[i \in 1 .. NumAtoms(a) |-> [k \in 1 .. Len(nb[i]) |-> nb[i][k][1]]],
          [i \in 1 .. NumAtoms(a) |-> [k \in 1 .. Len(nb[i]) |-> nb[i][k][2]]]>>

\* computed once for all configurations and cutoffs (the comparison makes TLC
\* tabulate the function instead of re-evaluating it at every application)
EnvTable ==
    LET table == [a \in AllAtoms |-> [rc \in CutoffRange |-> AseGetEnvironment(a, rc)]]
    IN  IF table = table THEN table ELSE table

\* Neighborhood = namedtuple("Neighborhood", ["idx", "offset"])
Neighborhood(idx, offset) == [idx |-> idx, offset |-> offset]

\* ------------------------------------------------------------------------
\* Converter
\* ------------------------------------------------------------------------
VARIABLES
    skin,                  \* self.skin
    cutoff,                \* self.cutoff
    environment_provider,  \* self.environment_provider: [cutoff |-> rc]
    atoms,                 \* self.atoms: None or Some(configuration)
    neighborhood,          \* self.neighborhood: None or Some(Neighborhood)
    alias,                 \* self.atoms is the caller's object, not a copy
    args,                  \* the arguments the Converter was constructed with
    last                   \* what the last __call__ did and gave back

vars == <<skin, cutoff, environment_provider, atoms, neighborhood, alias, args, last>>

\* Converter.__init__(cutoff, skin): the fields of the new object
\* __init__ handing the provider the cutoff without the skin
__init__without_skin(cutoff_, skin_) ==
    [skin |-> skin_,
     cutoff |-> cutoff_,
     environment_provider |-> [cutoff |-> cutoff_],
     atoms |-> None,
     neighborhood |-> None]

__init__(cutoff_, skin_) ==
    [skin |-> skin_,
     cutoff |-> cutoff_ + skin_,
     environment_provider |-> [cutoff |-> cutoff_ + skin_],
     atoms |-> None,
     neighborhood |-> None]

\* 'nl_construction_time' in kwargs and kwargs['nl_construction_time']
capture_nl_construction_time(kwargs) ==
    /\ \E p \in kwargs : p[1] = "nl_construction_time"
    /\ (CHOOSE p \in kwargs : p[1] = "nl_construction_time")[2]

\* (a.get_cell() != b.get_cell()).any()
CellDiffers(a, b) == \E r \in Axes, c \in Axes : get_cell(a)[r][c] # get_cell(b)[r][c]

\* (a.get_pbc() != b.get_pbc()).any()
PbcDiffers(a, b) == \E k \in Axes : get_pbc(a)[k] # get_pbc(b)[k]

\* numpy broadcasts an (n, 3) array against an (m, 3) array when n = m or
\* one of them is 1, and raises ValueError otherwise
Broadcasts(n, m) == n = m \/ n = 1 \/ m = 1

Max(S) == CHOOSE x \in S : \A y \in S : y <= x

\* row i of the broadcast array
Row(p, i) == IF Len(p) = 1 THEN p[1] ELSE p[i]

\* ((my_positions - new_positions) ** 2).sum(1)
SquaredDisplacements(my_positions, new_positions) ==
    LET rows == Max({Len(my_positions), Len(new_positions)})
    IN  [i \in 1 .. rows |->
            Sq(Row(my_positions, i)[1] - Row(new_positions, i)[1])
          + Sq(Row(my_positions, i)[2] - Row(new_positions, i)[2])
          + Sq(Row(my_positions, i)[3] - Row(new_positions, i)[3])]

\* .max()
ArrayMax(f) == Max({f[i] : i \in DOMAIN f})

\* _needs_update comparing with >= : a displacement of exactly skin is stale
_needs_update_at_skin(self_atoms, self_skin, a) ==
    IF CellDiffers(self_atoms, a) \/ PbcDiffers(self_atoms, a)
    THEN [raised |-> FALSE, value |-> TRUE]
    ELSE LET my_positions == get_positions(self_atoms)
             new_positions == get_positions(a)
         IN  IF ~Broadcasts(Len(my_positions), Len(new_positions))
             THEN [raised |-> TRUE, value |-> FALSE]
             ELSE [raised |-> FALSE,
                   value |-> ArrayMax(SquaredDisplacements(my_positions, new_positions))
                             >= Sq(self_skin)]

\* _needs_update without the comparison of the cells
_needs_update_ignoring_cell(self_atoms, self_skin, a) ==
    IF PbcDiffers(self_atoms, a)
    THEN [raised |-> FALSE, value |-> TRUE]
    ELSE LET my_positions == get_positions(self_atoms)
             new_positions == get_positions(a)
         IN  IF ~Broadcasts(Len(my_positions), Len(new_positions))
             THEN [raised |-> TRUE, value |-> FALSE]
             ELSE [raised |-> FALSE,
                   value |-> ArrayMax(SquaredDisplacements(my_positions, new_positions))
                             > Sq(self_skin)]

\* _needs_update without the comparison of the periodic flags
_needs_update_ignoring_pbc(self_atoms, self_skin, a) ==
    IF CellDiffers(self_atoms, a)
    THEN [raised |-> FALSE, value |-> TRUE]
    ELSE LET my_positions == get_positions(self_atoms)
             new_positions == get_positions(a)
         IN  IF ~Broadcasts(Len(my_positions), Len(new_positions))
             THEN [raised |-> TRUE, value |-> FALSE]
             ELSE [raised |-> FALSE,
                   value |-> ArrayMax(SquaredDisplacements(my_positions, new_positions))
                             > Sq(self_skin)]

\* _needs_update answering True whatever it is given
_needs_update_always(self_atoms, self_skin, a) == [raised |-> FALSE, value |-> TRUE]

\* Converter._needs_update(atoms) with self.atoms = self_atoms, self.skin = self_skin
_needs_update(self_atoms, self_skin, a) ==
    IF CellDiffers(self_atoms, a) \/ PbcDiffers(self_atoms, a)
    THEN [raised |-> FALSE, value |-> TRUE]
    ELSE LET my_positions == get_positions(self_atoms)
             new_positions == get_positions(a)
         IN  IF ~Broadcasts(Len(my_positions), Len(new_positions))
             THEN [raised |-> TRUE, value |-> FALSE]
             ELSE [raised |-> FALSE,
                   value |-> ArrayMax(SquaredDisplacements(my_positions, new_positions))
                             > Sq(self_skin)]

\* needs_update falling through without `return True` on the first call
needs_update_first_not_stale(self_atoms, self_skin, a) ==
    IF IsNone(self_atoms)
    THEN [raised |-> FALSE, value |-> FALSE, atoms |-> Some(a), aliased |-> TRUE]
    ELSE LET r == _needs_update(Val(self_atoms), self_skin, a)
         IN  [raised |-> r.raised, value |-> r.value, atoms |-> self_atoms, aliased |-> FALSE]

\* Converter.needs_update(atoms): the answer, and self.atoms afterwards
\* (aliased: self.atoms was bound to the caller's own object)
needs_update(self_atoms, self_skin, a) ==
    IF IsNone(self_atoms)
    THEN [raised |-> FALSE, value |-> TRUE, atoms |-> Some(a), aliased |-> TRUE]
    ELSE LET r == _needs_update(Val(self_atoms), self_skin, a)
         IN  [raised |-> r.raised, value |-> r.value, atoms |-> self_atoms, aliased |-> FALSE]

\* Converter.get_neighborhood(atoms), the provider having answered
get_neighborhood(provider, a) ==
    LET env == EnvTable[a][provider.cutoff]
    IN  Neighborhood(env[1], env[2])

\* FakeEnvironmentProvider(neighborhood)
FakeEnvironmentProvider(nbh) == [neighborhood |-> nbh]

\* a provider that searches the neighbors of the atoms it is handed
get_environment_searching(fake, a) ==
    IF IsNone(fake.neighborhood)
    THEN [raised |-> TRUE, value |-> None]
    ELSE [raised |-> FALSE, value |-> Some(EnvTable[a][1])]

\* FakeEnvironmentProvider.get_environment(atoms); None has no attribute idx
get_environment(fake, a) ==
    IF IsNone(fake.neighborhood)
    THEN [raised |-> TRUE, value |-> None]
    ELSE [raised |-> FALSE,
          value |-> Some(<<Val(fake.neighborhood).idx, Val(fake.neighborhood).offset>>)]

\* AtomsConverter(environment_provider = fake)(atoms): asks the provider it was
\* given for the environment of atoms, once, and packs the inputs of the model
AtomsConverter(fake, a) ==
    LET env == get_environment(fake, a)
    IN  IF env.raised
        THEN [raised |-> TRUE, inputs |-> None]
        ELSE [raised |-> FALSE,
              inputs |-> Some([positions |-> get_positions(a),
                               cell |-> get_cell(a),
                               pbc |-> get_pbc(a),
                               neighbors |-> Val(env.value)[1],
                               cell_offset |-> Val(env.value)[2]])]

\* `self.atoms = atoms` in place of atoms.copy(): the caller's own object
copy_aliasing(a) == [atoms |-> Some(a), aliased |-> TRUE]

\* atoms.copy(): a new object with the same positions, cell and pbc
copy(a) ==
    [atoms |-> Some([positions |-> get_positions(a), cell |-> get_cell(a), pbc |-> get_pbc(a)]),
     aliased |-> FALSE]

\* the two readings subtracted the other way round
Elapsed_reversed(start, now) == start - now

\* time.monotonic() - start
Elapsed(start, now) == now - start

NoCall ==
    [outcome |-> "none", before |-> None, arg |-> None, stale |-> FALSE,
     env_calls |-> 0, env_cutoff |-> None, env_raised |-> FALSE,
     conv_calls |-> 0, ret |-> None]

\* Converted(inputs, neighborhood), alone or paired with nl_construction_time
Result(inputs, nbh, capture, nl_construction_time) ==
    [inputs |-> inputs, neighborhood |-> nbh,
     timed |-> capture, nl_construction_time |-> nl_construction_time]

\* The Converter object as the methods see it
Self ==
    [skin |-> skin, cutoff |-> cutoff, environment_provider |-> environment_provider,
     atoms |-> atoms, neighborhood |-> neighborhood, alias |-> alias]

\* `if self.needs_update(atoms):` is entered, nu being what needs_update gave
Stale(nu) == ~nu.raised /\ nu.value

\* the body of the `if` run by every call, stale or not
Recompute_unconditional(self, stale, a, capture, env_raises, start, now) ==
    LET copied == copy(a)
    IN  [atoms |-> copied.atoms,
         alias |-> copied.aliased,
         neighborhood |->
             IF env_raises THEN self.neighborhood
             ELSE Some(get_neighborhood(self.environment_provider, Val(copied.atoms))),
         env_calls |-> 1,
         raised |-> env_raises,
         nl_construction_time |->
             IF capture /\ ~env_raises THEN Some(Elapsed(start, now)) ELSE None]

\* a cache hit that moves self.atoms on to the configuration just passed
Recompute_following(self, stale, a, capture, env_raises, start, now) ==
    LET copied == copy(a)
    IN  IF stale
        THEN [atoms |-> copied.atoms,
              alias |-> copied.aliased,
              neighborhood |->
                  IF env_raises THEN self.neighborhood
                  ELSE Some(get_neighborhood(self.environment_provider, Val(copied.atoms))),
              env_calls |-> 1,
              raised |-> env_raises,
              nl_construction_time |->
                  IF capture /\ ~env_raises THEN Some(Elapsed(start, now)) ELSE None]
        ELSE [atoms |-> copied.atoms,
              alias |-> copied.aliased,
              neighborhood |-> self.neighborhood,
              env_calls |-> 0,
              raised |-> FALSE,
              nl_construction_time |-> None]

\* a recomputation that stores the new list without storing the configuration
Recompute_keeping_atoms(self, stale, a, capture, env_raises, start, now) ==
    IF stale
    THEN [atoms |-> self.atoms,
          alias |-> self.alias,
          neighborhood |->
              IF env_raises THEN self.neighborhood
              ELSE Some(get_neighborhood(self.environment_provider, a)),
          env_calls |-> 1,
          raised |-> env_raises,
          nl_construction_time |->
              IF capture /\ ~env_raises THEN Some(Elapsed(start, now)) ELSE None]
    ELSE [atoms |-> self.atoms,
          alias |-> self.alias,
          neighborhood |-> self.neighborhood,
          env_calls |-> 0,
          raised |-> FALSE,
          nl_construction_time |-> None]

\* a recomputation that swallows the provider's error and goes on with the
\* list it had
Recompute_suppressing(self, stale, a, capture, env_raises, start, now) ==
    IF stale
    THEN LET copied == copy(a)
         IN  [atoms |-> copied.atoms,
              alias |-> copied.aliased,
              neighborhood |->
                  IF env_raises THEN self.neighborhood
                  ELSE Some(get_neighborhood(self.environment_provider, Val(copied.atoms))),
              env_calls |-> 1,
              raised |-> FALSE,
              nl_construction_time |->
                  IF capture /\ ~env_raises THEN Some(Elapsed(start, now)) ELSE None]
    ELSE [atoms |-> self.atoms,
          alias |-> self.alias,
          neighborhood |-> self.neighborhood,
          env_calls |-> 0,
          raised |-> FALSE,
          nl_construction_time |-> None]

\* The body of `if self.needs_update(atoms):` in __call__, entered when stale:
\* the fields it leaves, the provider calls it made, whether the provider
\* raised, and nl_construction_time.  env_raises: the environment provider
\* raises; start, now: the two readings of time.monotonic().
Recompute(self, stale, a, capture, env_raises, start, now) ==
    IF stale
    THEN LET copied == copy(a)
         IN  [atoms |-> copied.atoms,
              alias |-> copied.aliased,
              neighborhood |->
                  IF env_raises THEN self.neighborhood
                  ELSE Some(get_neighborhood(self.environment_provider, Val(copied.atoms))),
              env_calls |-> 1,
              raised |-> env_raises,
              nl_construction_time |->
                  IF capture /\ ~env_raises THEN Some(Elapsed(start, now)) ELSE None]
    ELSE [atoms |-> self.atoms,
          alias |-> self.alias,
          neighborhood |-> self.neighborhood,
          env_calls |-> 0,
          raised |-> FALSE,
          nl_construction_time |-> None]

\* Converter.__call__(a, **kwargs): the fields it leaves and what it gives
\* back.  nu: what self.needs_update(a) gave on line 47; conv_raises: the
\* AtomsConverter raises.
__call__(self, nu, a, kwargs, env_raises, conv_raises, start, now) ==
    LET capture == capture_nl_construction_time(kwargs)
        stale == Stale(nu)
        self1 == [self EXCEPT !.atoms = nu.atoms, !.alias = self.alias \/ nu.aliased]
        up == Recompute(self1, stale, a, capture, env_raises, start, now)
        conv_reached == ~nu.raised /\ ~up.raised
        conv == AtomsConverter(FakeEnvironmentProvider(up.neighborhood), a)
        returned == conv_reached /\ ~conv.raised /\ ~conv_raises
    IN  [atoms |-> up.atoms,
         alias |-> up.alias,
         neighborhood |-> up.neighborhood,
         last |-> [outcome |-> IF returned THEN "returned" ELSE "raised",
                   before |-> self.atoms,
                   arg |-> Some(a),
                   stale |-> stale,
                   env_calls |-> up.env_calls,
                   env_cutoff |-> IF up.env_calls > 0
                                  THEN Some(self.environment_provider.cutoff)
                                  ELSE None,
                   env_raised |-> up.env_calls > 0 /\ env_raises,
                   conv_calls |-> IF conv_reached THEN 1 ELSE 0,
                   ret |-> IF returned
                           THEN Some(Result(Val(conv.inputs), up.neighborhood, capture,
                                            up.nl_construction_time))
                           ELSE None]]

\* A caller calls the converter
Call(nu, a, kwargs, env_raises, conv_raises, start, now) ==
    \E r \in {__call__(Self, nu, a, kwargs, env_raises, conv_raises, start, now)} :
        /\ atoms' = r.atoms
        /\ alias' = r.alias
        /\ neighborhood' = r.neighborhood
        /\ last' = r.last
        /\ UNCHANGED <<skin, cutoff, environment_provider, args>>

\* A caller calls Converter.needs_update(a) on its own
NeedsUpdate(a) ==
    \E nu \in {needs_update(atoms, skin, a)} :
        /\ atoms' = nu.atoms
        /\ alias' = (alias \/ nu.aliased)
        /\ UNCHANGED <<skin, cutoff, environment_provider, neighborhood, args, last>>

\* The caller changes, in place, the object that self.atoms is bound to
CallerMutates(m) ==
    /\ alias
    /\ atoms' = Some(m)
    /\ UNCHANGED <<skin, cutoff, environment_provider, neighborhood, alias, args, last>>

Init ==
    \E cutoff_ \in 1 .. MaxCutoff, skin_ \in 0 .. MaxSkin :
        \E self \in {__init__(cutoff_, skin_)} :
            /\ skin = self.skin
            /\ cutoff = self.cutoff
            /\ environment_provider = self.environment_provider
            /\ atoms = self.atoms
            /\ neighborhood = self.neighborhood
            /\ alias = FALSE
            /\ args = [cutoff |-> cutoff_, skin |-> skin_]
            /\ last = NoCall

\* two readings of a monotonic clock
Readings == {t \in (0 .. MaxClock) \X (0 .. MaxClock) : t[1] <= t[2]}

\* The provider's outcome is drawn only by the calls that reach it, the
\* converter's outcome only by the calls that get that far, and the clock's
\* readings only by the calls that hand the duration back.
Next ==
    \/ \E a \in AtomsSet :
         \E nu \in {needs_update(atoms, skin, a)} :
           \E kwargs \in KwargsSet,
              env_raises \in (IF Stale(nu) THEN BOOLEAN ELSE {FALSE}) :
                \E conv_raises \in (IF env_raises THEN {FALSE} ELSE BOOLEAN) :
                  \E t \in (IF Stale(nu) /\ ~env_raises /\ ~conv_raises
                               /\ capture_nl_construction_time(kwargs)
                            THEN Readings ELSE {<<0, 0>>}) :
                    Call(nu, a, kwargs, env_raises, conv_raises, t[1], t[2])
    \/ \E a \in AtomsSet : NeedsUpdate(a)
    \/ \E m \in AtomsSet : CallerMutates(m)

Spec == Init /\ [][Next]_vars

\* Calls of the converter by a caller whose configurations change their
\* number of atoms
NextCounts ==
    \E a \in CountsSet :
      \E nu \in {needs_update(atoms, skin, a)} :
        \E env_raises \in (IF Stale(nu) THEN BOOLEAN ELSE {FALSE}) :
          \E conv_raises \in (IF env_raises \/ nu.raised THEN {FALSE} ELSE BOOLEAN) :
            Call(nu, a, {}, env_raises, conv_raises, 0, 0)

SpecCounts == Init /\ [][NextCounts]_vars

\* ------------------------------------------------------------------------
\* What the properties read off a state
\* ------------------------------------------------------------------------
Called == last.outcome # "none"
Returned == last.outcome = "returned"
Initialized == Called /\ ~IsNone(last.before)
Before == Val(last.before)
Arg == Val(last.arg)
ReturnedNeighborhood == Val(Val(last.ret).neighborhood)

\* the <<atom, neighbor, cell offset>> entries of a neighborhood
Pairs(nbh) ==
    UNION {{<<i, nbh.idx[i][k], nbh.offset[i][k]>> : k \in DOMAIN nbh.idx[i]} :
             i \in DOMAIN nbh.idx}

\* what the environment provider answers for a at cutoff rc, asked directly
DirectOutput(a, rc) == Neighborhood(EnvTable[a][rc][1], EnvTable[a][rc][2])

SameCell(a, b) == get_cell(a) = get_cell(b)
SamePbc(a, b) == get_pbc(a) = get_pbc(b)

\* the largest squared distance an atom of a lies from its place in b
MaxSquaredDisplacement(a, b) ==
    Max({Sq(a.positions[i][1] - b.positions[i][1])
         + Sq(a.positions[i][2] - b.positions[i][2])
         + Sq(a.positions[i][3] - b.positions[i][3]) : i \in 1 .. NumAtoms(a)})

\* the cache holds the provider's answer for self.atoms at cutoff + skin
Coherent ==
    /\ ~IsNone(atoms)
    /\ neighborhood = Some(DirectOutput(Val(atoms), args.cutoff + args.skin))

\* ------------------------------------------------------------------------
\* Properties
\* ------------------------------------------------------------------------

\* C1: the neighborhood a call returns contains every pair of atoms that lie
\* within the requested cutoff (cutoff without skin) of each other in the
\* configuration passed to the call, also on a cache hit, when no atom has
\* moved by more than skin since the list was computed.
C1_ReturnedCoversTrueNeighbors ==
    (Returned /\ ~last.stale /\ Coherent)
        => Pairs(DirectOutput(Arg, args.cutoff)) \subseteq Pairs(ReturnedNeighborhood)

C3_StaleIffBeyondSkin ==
    (Initialized /\ SameCell(Before, Arg) /\ SamePbc(Before, Arg))
        => /\ last.stale <=> MaxSquaredDisplacement(Before, Arg) > Sq(args.skin)
           /\ last.env_calls = (IF last.stale THEN 1 ELSE 0)

\* a call whose largest displacement is exactly skin > 0, served from the cache
C3_Witness ==
    /\ Initialized
    /\ Returned
    /\ args.skin > 0
    /\ SameCell(Before, Arg) /\ SamePbc(Before, Arg)
    /\ MaxSquaredDisplacement(Before, Arg) = Sq(args.skin)
    /\ ~last.stale
    /\ last.env_calls = 0

\* C4: on a cache whose self.atoms is present, a call whose cell differs in
\* any element from the cell of self.atoms is stale and invokes the
\* environment provider, also with zero displacement and equal periodic flags.
C4_CellChangeRecomputes ==
    (Initialized /\ ~SameCell(Before, Arg))
        => /\ last.stale
           /\ last.env_calls = 1

\* a call that only changed the cell: equal positions, equal periodic flags
C4_Witness ==
    /\ Initialized
    /\ Returned
    /\ ~SameCell(Before, Arg)
    /\ SamePbc(Before, Arg)
    /\ get_positions(Before) = get_positions(Arg)
    /\ last.env_calls = 1

\* C5: on a cache whose self.atoms is present, a call whose periodic flags
\* differ in any component from those of self.atoms is stale and invokes the
\* environment provider, also with an identical cell and zero displacement.
C5_PbcChangeRecomputes ==
    (Initialized /\ ~SamePbc(Before, Arg))
        => /\ last.stale
           /\ last.env_calls = 1

\* a call that only changed the periodic flags
C5_Witness ==
    /\ Initialized
    /\ Returned
    /\ ~SamePbc(Before, Arg)
    /\ SameCell(Before, Arg)
    /\ get_positions(Before) = get_positions(Arg)
    /\ last.env_calls = 1

\* C6: a call that is not stale and returns does not invoke the environment
\* provider, and the neighborhood it returns is the one the cache held when
\* the call began, which is the neighborhood the previous call returned.
C6_HitReusesNeighborhood ==
    [][(last' # last /\ last'.outcome = "returned" /\ ~last'.stale)
          => /\ last'.env_calls = 0
             /\ Val(last'.ret).neighborhood = neighborhood
             /\ (last.outcome = "returned"
                    => Val(last'.ret).neighborhood = Val(last.ret).neighborhood)]_vars

\* a cache hit for a configuration that moved, returning a list with entries
C6_Witness ==
    /\ Initialized
    /\ Returned
    /\ ~last.stale
    /\ last.env_calls = 0
    /\ Before # Arg
    /\ atoms = last.before
    /\ Val(last.ret).neighborhood = neighborhood
    /\ Pairs(ReturnedNeighborhood) # {}

\* C7: a cache constructed with skin = 0 invokes the environment provider in
\* every call, also in a call with a configuration identical to self.atoms.
C7_ZeroSkinAlwaysRecomputes ==
    (Called /\ args.skin = 0) => last.env_calls = 1

\* C7 (amended): a cache constructed with skin = 0 invokes the environment
\* provider in exactly the calls made on a fresh cache or with a configuration
\* that differs from self.atoms; a call with an identical configuration is a
\* cache hit.
C7_ZeroSkinRecomputesOnChange ==
    (Called /\ args.skin = 0)
        => (last.env_calls = 1 <=> (IsNone(last.before) \/ Before # Arg))

\* with skin = 0, a call whose atoms moved within the same cell
C7_Witness ==
    /\ args.skin = 0
    /\ Initialized
    /\ Returned
    /\ SameCell(Before, Arg) /\ SamePbc(Before, Arg)
    /\ Before # Arg
    /\ last.env_calls = 1

\* C8: every call that returns normally returns the environment provider's
\* output for the cache's self.atoms at cutoff + skin, whatever calls came
\* before, those in which the provider or the AtomsConverter raised included.
C8_ReturnedMatchesCachedAtoms ==
    Returned
        => /\ ~IsNone(atoms)
           /\ ReturnedNeighborhood = DirectOutput(Val(atoms), args.cutoff + args.skin)

\* C9: with nl_construction_time asked for, a call that is a cache hit returns
\* None as the duration, and a call that recomputes returns the difference of
\* two readings of the monotonic clock, which is not negative.
C9_DurationOnlyWhenRecomputed ==
    (Returned /\ Val(last.ret).timed)
        => IF last.env_calls = 1
           THEN /\ ~IsNone(Val(last.ret).nl_construction_time)
                /\ Val(Val(last.ret).nl_construction_time) >= 0
           ELSE IsNone(Val(last.ret).nl_construction_time)

\* a recomputing call that returned a duration greater than zero
C9_Witness ==
    /\ Returned
    /\ Val(last.ret).timed
    /\ last.stale
    /\ last.env_calls = 1
    /\ ~IsNone(Val(last.ret).nl_construction_time)
    /\ Val(Val(last.ret).nl_construction_time) > 0

\* C10: self.cutoff is the constructor's cutoff plus skin, cutoff and skin
\* never change, every invocation of the environment provider uses
\* cutoff + skin, and the neighborhood of a recomputing call is the provider's
\* direct output for the configuration passed, at cutoff + skin.
C10_EffectiveCutoff ==
    /\ skin = args.skin
    /\ cutoff = args.cutoff + args.skin
    /\ environment_provider.cutoff = args.cutoff + args.skin
    /\ (last.env_calls = 1 => last.env_cutoff = Some(args.cutoff + args.skin))
    /\ (Returned /\ last.stale
          => ReturnedNeighborhood = DirectOutput(Arg, args.cutoff + args.skin))

\* a recomputing call whose list has a pair beyond cutoff but within cutoff + skin
C10_Witness ==
    /\ Returned
    /\ last.stale
    /\ args.skin > 0
    /\ last.env_cutoff = Some(args.cutoff + args.skin)
    /\ ReturnedNeighborhood = DirectOutput(Arg, args.cutoff + args.skin)
    /\ DirectOutput(Arg, args.cutoff + args.skin) # DirectOutput(Arg, args.cutoff)

\* C11: a call that is a cache hit leaves self.atoms and self.neighborhood
\* as they were, so the call after a hit is still measured against the
\* configuration of the last recomputation: with cell and pbc equal, it is
\* stale exactly when the displacement accumulated from that configuration
\* exceeds skin, whatever the displacement from the previous call.
C11_HitKeepsReference ==
    [][/\ (last' # last /\ ~last'.stale)
            => /\ atoms' = atoms
               /\ neighborhood' = neighborhood
       /\ (last' # last /\ last.outcome = "returned" /\ ~last.stale)
            => /\ last'.before = last.before
               /\ (SameCell(Before, Val(last'.arg)) /\ SamePbc(Before, Val(last'.arg)))
                     => (last'.stale
                           <=> MaxSquaredDisplacement(Before, Val(last'.arg))
                                 > Sq(args.skin))]_vars

\* after a cache hit for a configuration that moved by skin > 0: self.atoms
\* is still the configuration of the last recomputation, with its list
C11_Witness ==
    /\ Initialized
    /\ Returned
    /\ ~last.stale
    /\ args.skin > 0
    /\ MaxSquaredDisplacement(Before, Arg) = Sq(args.skin)
    /\ atoms = last.before
    /\ atoms # last.arg
    /\ Coherent

\* C12: after every call that returns normally, self.atoms is equal by value
\* to the configuration passed to that call.
C12_LastIsMostRecent ==
    Returned => atoms = last.arg

\* C12 (amended): after a call that returns normally, self.atoms is a copy
\* equal by value to the configuration passed when the call recomputed; after
\* a cache hit it is the configuration the cache held before the call, which
\* has the cell and pbc of the one passed and lies within skin of it.
C12_LastIsReference ==
    Returned
        => /\ ~IsNone(atoms)
           /\ ~alias
           /\ IF last.stale
              THEN atoms = last.arg
              ELSE /\ atoms = last.before
                   /\ SameCell(Val(atoms), Arg)
                   /\ SamePbc(Val(atoms), Arg)
                   /\ MaxSquaredDisplacement(Val(atoms), Arg) <= Sq(args.skin)

\* a recomputing call on a cache that held another configuration
C12_Witness ==
    /\ Initialized
    /\ Returned
    /\ last.stale
    /\ Before # Arg
    /\ atoms = last.arg
    /\ ~alias

\* C13: a stale call leaves self.atoms a copy, not the caller's object, so
\* nothing the caller does to its object afterwards reaches it: the next call
\* still finds the values passed to the stale call, and is stale when the
\* configuration it passes differs from them in cell or pbc or has an atom
\* moved by more than skin.
C13_StaleCallOwnsCopy ==
    [][/\ (Called /\ last.stale) => ~alias
       /\ (last' # last /\ last.stale)
            => /\ last'.before = last.arg
               /\ (\/ ~SameCell(Arg, Val(last'.arg))
                   \/ ~SamePbc(Arg, Val(last'.arg))
                   \/ MaxSquaredDisplacement(Arg, Val(last'.arg)) > Sq(args.skin))
                     => (last'.stale /\ last'.env_calls = 1)]_vars

\* a call with an atom moved by more than skin, found stale against the
\* values stored before, and stored as a copy in its turn
C13_Witness ==
    /\ Initialized
    /\ last.stale
    /\ last.env_calls = 1
    /\ SameCell(Before, Arg) /\ SamePbc(Before, Arg)
    /\ MaxSquaredDisplacement(Before, Arg) > Sq(args.skin)
    /\ ~alias
    /\ atoms = last.arg

C15_ProviderErrorPropagates ==
    Called
        => /\ last.env_calls <= 1
           /\ last.env_raised
                => /\ last.env_calls = 1
                   /\ last.outcome = "raised"
                   /\ last.conv_calls = 0
                   /\ IsNone(last.ret)

\* a call on a cache holding a list, in which the provider raised
C15_Witness ==
    /\ Initialized
    /\ last.env_raised
    /\ last.outcome = "raised"
    /\ last.conv_calls = 0
    /\ ~IsNone(neighborhood)

\* C16: between calls, after any sequence of calls, those that raised
\* included, self.atoms is absent exactly when self.neighborhood is absent.
\* (self.atoms bound to the caller's object by a needs_update made on its own
\* is left aside: the property is about what calls of the converter leave.)
C16_AbsentTogether ==
    (Called /\ ~alias) => (IsNone(atoms) <=> IsNone(neighborhood))

\* C17: needs_update called on its own, in any state of the cache, a fresh
\* one included, leaves self.atoms and self.neighborhood unchanged.
C17_NeedsUpdateIsPure ==
    [][(\E a \in AtomsSet : NeedsUpdate(a))
          => (atoms' = atoms /\ neighborhood' = neighborhood)]_vars

\* C18: a call whose configuration has another number of atoms than
\* self.atoms is never a cache hit that returns the stored list: it is either
\* stale, and recomputes, or it raises and leaves self.atoms and
\* self.neighborhood as they were.
C18_AtomCountChangeNeverHits ==
    [][(last' # last /\ ~IsNone(atoms)
          /\ NumAtoms(Val(atoms)) # NumAtoms(Val(last'.arg)))
          => \/ last'.stale /\ last'.env_calls = 1
             \/ /\ last'.outcome = "raised"
                /\ atoms' = atoms
                /\ neighborhood' = neighborhood]_vars

====
